---- MODULE Spec2Model ----
(***************************************************************************)
(* The hash-chained energy ledger of blockchain_energy.py: Block,          *)
(* SmartContract records and EnergyBlockchain.                             *)
(*                                                                         *)
(* Python lists are objects: a Block keeps a reference to the list it was  *)
(* given, and EnergyBlockchain keeps a reference to its pending list.  The *)
(* variable lists is the heap of list objects (a reference is an index     *)
(* into it); Block.transactions and pending_transactions hold references.  *)
(*                                                                         *)
(* A hex digest is modelled as [hex, pre]: hex holds the leading HexDigits *)
(* hex characters (each 0..15), pre holds the serialized preimage and      *)
(* stands for the remaining characters of the SHA-256 digest, so that      *)
(* distinct preimages have distinct digests.                               *)
(***************************************************************************)
EXTENDS Integers, Sequences, FiniteSets, TLC

\* ---------------------------------------------------------------- bounds
MaxChain == 3        \* blocks in the chain, genesis included
MaxExecute == 2      \* calls of execute on one contract
MaxSubmitted == 2    \* calls of add_transaction in a run
HexDigits == 2       \* leading hex characters of a digest that are modelled
\* The nonces followed in a run of mine_block: one full turn of the modelled
\* hex characters.
MaxNonce == 16 ^ HexDigits

\* Addresses that get_balance is asked about, and addresses that mine.
Addresses == {"A", "B", "M"}
Miners == {"M", "A"}
\* Readings of datetime.now().
Times == {1, 2}
\* The contracts whose records are submitted: contract_id, producer,
\* consumer, energy_kwh, price.
Contracts ==
    {<<"SC001", "A", "B", 2, 3>>,
     <<"SC002", "B", "A", 1, 5>>,
     <<"SC003", "A", "A", 4, 1>>}
\* Difficulties given to the constructor (mine_block takes up to 16^d steps).
Difficulties == {0, 1}

\* ------------------------------------------------------------- constants
MiningReward == 1

None == <<>>
Some(x) == <<x>>

\* ------------------------------------------------------------- variables
VARIABLES
    chain,                 \* EnergyBlockchain.chain: sequence of Block objects
    lists,                 \* heap of Python list objects of transaction dicts
    pending_transactions,  \* EnergyBlockchain.pending_transactions: a list reference
    difficulty,            \* EnergyBlockchain.difficulty
    mining_reward,         \* EnergyBlockchain.mining_reward
    clock,                 \* the latest reading of datetime.now()
    submitted,             \* the dicts passed to add_transaction so far, in order
    ret,                   \* last call: its name, argument, return value, printed lines
    tampered,              \* the out-of-band modification of a stored block, if any
    contracts,             \* heap of SmartContract objects (reference = index)
    executed,              \* per contract: the records its execute calls returned
    seal,                  \* frame of a mine_pending_transactions call in progress
    raced                  \* records added while the latest such frame was open

vars == <<chain, lists, pending_transactions, difficulty, mining_reward, clock,
          submitted, ret, tampered, contracts, executed, seal, raced>>

\* ---------------------------------------------------------- SmartContract
\* execute pricing the trade at the unit price: total_cost = price.
ExecuteRecord_UnitPrice(contract_id, producer, consumer, energy_kwh, price, timestamp) ==
    [contract_id |-> contract_id,
     from |-> producer,
     to |-> consumer,
     energy_kwh |-> energy_kwh,
     price_per_kwh |-> price,
     total_cost |-> price,
     timestamp |-> timestamp,
     type |-> "energy_trade"]

\* SmartContract.execute: the transaction dict built from the contract's fields.
ExecuteRecord(contract_id, producer, consumer, energy_kwh, price, timestamp) ==
    [contract_id |-> contract_id,
     from |-> producer,
     to |-> consumer,
     energy_kwh |-> energy_kwh,
     price_per_kwh |-> price,
     total_cost |-> energy_kwh * price,
     timestamp |-> timestamp,
     type |-> "energy_trade"]

\* The dicts callers hand to add_transaction: results of SmartContract.execute.
TradeRecords ==
    {ExecuteRecord(c[1], c[2], c[3], c[4], c[5], 1) : c \in Contracts}

\* ------------------------------------------------------------------ Block
\* json.dumps(..., sort_keys=True) of a transaction dict: its items in
\* lexicographic key order.
SortedTransactionKeys ==
    <<"contract_id", "energy_kwh", "from", "price_per_kwh",
      "timestamp", "to", "total_cost", "type">>

SerializeTransaction(t) ==
    LET keys == SelectSeq(SortedTransactionKeys, LAMBDA k : k \in DOMAIN t)
    IN  [i \in 1 .. Len(keys) |-> <<keys[i], t[keys[i]]>>]

\* json.dumps of the block dict with sort_keys=True: index, nonce,
\* previous_hash, timestamp, transactions (the list's current content).
Serialize(b, heap) ==
    <<b.index, b.nonce, b.previous_hash, b.timestamp,
      [i \in 1 .. Len(heap[b.transactions]) |->
          SerializeTransaction(heap[b.transactions][i])]>>

RECURSIVE SumCost(_)
SumCost(s) ==
    IF s = <<>> THEN 0 ELSE s[1].total_cost + 7 * SumCost(Tail(s))

RECURSIVE HexValue(_)
HexValue(h) ==
    IF h = <<>> THEN 0 ELSE h[1] + 16 * HexValue(Tail(h))

\* The number whose hex characters lead the digest.
Mix(b, heap) ==
    (3 * b.index + 5 * b.timestamp + 11 * SumCost(heap[b.transactions])
       + 13 * Len(heap[b.transactions]) + 9 * HexValue(b.previous_hash.hex)
       + 6 + b.nonce) % (16 ^ HexDigits)

HexOf(n) == [k \in 1 .. HexDigits |-> (n \div (16 ^ (k - 1))) % 16]

\* calculate_hash with 'timestamp' left out of the hashed dict.
CalculateHash_NoTimestamp(b, heap) ==
    [hex |-> HexOf(Mix([b EXCEPT !.timestamp = 0], heap)),
     pre |-> Serialize([b EXCEPT !.timestamp = 0], heap)]

\* calculate_hash dumping the whole object (self.__dict__), the stored hash
\* included once the object has one.
CalculateHash_OfDict(b, heap) ==
    [hex |-> HexOf(Mix(b, heap)),
     pre |-> IF "hash" \in DOMAIN b
             THEN <<Serialize(b, heap), b.hash.hex>>
             ELSE Serialize(b, heap)]

\* Block.calculate_hash
CalculateHash(b, heap) ==
    [hex |-> HexOf(Mix(b, heap)), pre |-> Serialize(b, heap)]

\* Block.__init__
NewBlock(index, timestamp, transactions, previous_hash, heap) ==
    LET b == [index |-> index, timestamp |-> timestamp,
              transactions |-> transactions, previous_hash |-> previous_hash,
              nonce |-> 0]
    IN  [index |-> index, timestamp |-> timestamp,
         transactions |-> transactions, previous_hash |-> previous_hash,
         nonce |-> 0, hash |-> CalculateHash(b, heap)]

\* '0' * difficulty
Target(d) == [k \in 1 .. d |-> 0]

\* hash[:difficulty]
Prefix(h, d) == SubSeq(h.hex, 1, IF d < Len(h.hex) THEN d ELSE Len(h.hex))

\* mine_block with `if` in place of `while`: a single attempt.
MineBlock_Once(b, d, heap) ==
    IF Prefix(b.hash, d) # Target(d)
    THEN LET n == [b EXCEPT !.nonce = b.nonce + 1]
         IN  [n EXCEPT !.hash = CalculateHash(n, heap)]
    ELSE b

\* Block.mine_block
RECURSIVE MineBlock(_, _, _)
MineBlock(b, d, heap) ==
    IF Prefix(b.hash, d) # Target(d)
    THEN LET n == [b EXCEPT !.nonce = b.nonce + 1]
         IN  MineBlock([n EXCEPT !.hash = CalculateHash(n, heap)], d, heap)
    ELSE b

\* ------------------------------------------------------- EnergyBlockchain
\* The previous_hash literal "0" of the genesis block.
GenesisPreviousHash == [hex |-> <<0>>, pre |-> <<>>]

\* create_genesis_block handing the pending list to the genesis block.
GenesisBlock_SharedList(timestamp, d, heap) ==
    MineBlock(NewBlock(0, timestamp, 1, GenesisPreviousHash, heap), d, heap)

\* EnergyBlockchain.create_genesis_block, on a heap whose last list is the
\* fresh [] of the genesis block.
GenesisBlock(timestamp, d, heap) ==
    MineBlock(NewBlock(0, timestamp, Len(heap), GenesisPreviousHash, heap), d, heap)

\* get_latest_block returning chain[0].
GetLatestBlock_First(c) == c[1]

\* EnergyBlockchain.get_latest_block
GetLatestBlock(c) == c[Len(c)]

\* The reward dict of mine_pending_transactions.
RewardTransaction(miner_address, reward) ==
    [from |-> "network",
     to |-> miner_address,
     energy_kwh |-> 0,
     price_per_kwh |-> 0,
     total_cost |-> reward,
     type |-> "mining_reward"]

\* EnergyBlockchain.__init__ : pending list is lists[1], genesis list is lists[2].
Init ==
    /\ lists = <<<<>>, <<>>>>
    /\ pending_transactions = 1
    /\ difficulty \in Difficulties
    /\ mining_reward = MiningReward
    /\ clock \in Times
    /\ chain = <<GenesisBlock(clock, difficulty, lists)>>
    /\ submitted = <<>>
    /\ ret = [op |-> "__init__", arg |-> None, val |-> None, out |-> <<>>]
    /\ tampered = None
    /\ contracts = <<>>
    /\ executed = <<>>
    /\ seal = None
    /\ raced = <<>>

Pending == lists[pending_transactions]

\* datetime.now(): the clock does not run backwards.
Now == {ts \in Times : ts >= clock}

\* add_transaction refusing a record whose producer is its own consumer.
AddTransaction_Checked(transaction) ==
    /\ Len(submitted) < MaxSubmitted
    /\ transaction.from # transaction.to
    /\ submitted' = Append(submitted, transaction)
    /\ lists' = [lists EXCEPT ![pending_transactions] = Append(@, transaction)]
    /\ ret' = [op |-> "add_transaction", arg |-> Some(transaction),
               val |-> None, out |-> <<>>]
    /\ raced' = IF seal # None THEN Append(raced, transaction) ELSE raced
    /\ UNCHANGED <<contracts, executed, seal, chain, pending_transactions,
                   difficulty, mining_reward, clock, tampered>>

\* add_transaction putting the record at the head of the pool
\* (insert(0, transaction)).
AddTransaction_Front(transaction) ==
    /\ Len(submitted) < MaxSubmitted
    /\ submitted' = Append(submitted, transaction)
    /\ lists' = [lists EXCEPT ![pending_transactions] = <<transaction>> \o @]
    /\ ret' = [op |-> "add_transaction", arg |-> Some(transaction),
               val |-> None, out |-> <<>>]
    /\ raced' = IF seal # None THEN Append(raced, transaction) ELSE raced
    /\ UNCHANGED <<contracts, executed, seal, chain, pending_transactions,
                   difficulty, mining_reward, clock, tampered>>

\* EnergyBlockchain.add_transaction
AddTransaction(transaction) ==
    /\ Len(submitted) < MaxSubmitted
    /\ submitted' = Append(submitted, transaction)
    /\ lists' = [lists EXCEPT ![pending_transactions] = Append(@, transaction)]
    /\ ret' = [op |-> "add_transaction", arg |-> Some(transaction),
               val |-> None, out |-> <<>>]
    /\ raced' = IF seal # None THEN Append(raced, transaction) ELSE raced
    /\ UNCHANGED <<contracts, executed, seal, chain, pending_transactions,
                   difficulty, mining_reward, clock, tampered>>

\* The empty-pool test never taken.
IsEmptyPool_Never(p) == FALSE

\* `not self.pending_transactions`
IsEmptyPool(p) == p = <<>>

\* The new block numbered len(chain) + 1.
SealedBlock_IndexOff(c, heap, pending, timestamp, d) ==
    MineBlock(NewBlock(Len(c) + 1, timestamp, pending, GetLatestBlock(c).hash, heap),
              d, heap)

\* The Block built and mined by mine_pending_transactions: it is given the
\* pending list itself (the reference), not a copy.
SealedBlock(c, heap, pending, timestamp, d) ==
    MineBlock(NewBlock(Len(c), timestamp, pending, GetLatestBlock(c).hash, heap),
              d, heap)

\* The reward appended to a copy of the old pool instead of replacing it.
ResetPending_Extend(heap, pending, reward_transaction) ==
    [lists |-> Append(heap, Append(heap[pending], reward_transaction)),
     pending |-> Len(heap) + 1]

\* The pool emptied and refilled in place (clear() and append()).
ResetPending_InPlace(heap, pending, reward_transaction) ==
    [lists |-> [heap EXCEPT ![pending] = <<reward_transaction>>],
     pending |-> pending]

\* The pool replaced by an empty list, the reward not queued.
ResetPending_Empty(heap, pending, reward_transaction) ==
    [lists |-> Append(heap, <<>>), pending |-> Len(heap) + 1]

\* The reward appended to the list the new block holds, and an empty list
\* bound as the pool.
ResetPending_IntoBlock(heap, pending, reward_transaction) ==
    [lists |-> Append([heap EXCEPT ![pending] = Append(@, reward_transaction)], <<>>),
     pending |-> Len(heap) + 1]

\* `self.pending_transactions = [reward_transaction]`: a new list object is
\* bound; the old list object is left as it is.
ResetPending(heap, pending, reward_transaction) ==
    [lists |-> Append(heap, <<reward_transaction>>), pending |-> Len(heap) + 1]

\* mine_pending_transactions ending in `return new_block`.
MineReturn_Block(new_block) == Some(new_block)

\* mine_pending_transactions has no return statement with a value.
MineReturn(new_block) == None

\* EnergyBlockchain.mine_pending_transactions
MinePendingTransactions(miner_address) ==
    IF IsEmptyPool(Pending)
    THEN /\ ret' = [op |-> "mine_pending_transactions", arg |-> Some(miner_address),
                    val |-> None, out |-> <<"No transactions to mine">>]
         /\ UNCHANGED <<contracts, executed, seal, raced,
                        chain, lists, pending_transactions, difficulty,
                        mining_reward, clock, submitted, tampered>>
    ELSE /\ Len(chain) < MaxChain
         /\ \E ts \in Now :
              LET new_block == SealedBlock(chain, lists, pending_transactions,
                                           ts, difficulty)
                  reset == ResetPending(lists, pending_transactions,
                               RewardTransaction(miner_address, mining_reward))
              IN  /\ clock' = ts
                  /\ chain' = Append(chain, new_block)
                  /\ lists' = reset.lists
                  /\ pending_transactions' = reset.pending
                  /\ ret' = [op |-> "mine_pending_transactions",
                             arg |-> Some(miner_address),
                             val |-> MineReturn(new_block),
                             out |-> <<<<"Mining block", new_block.index>>,
                                       <<"Block mined successfully", new_block.index>>>>]
         /\ UNCHANGED <<contracts, executed, seal, raced,
                        difficulty, mining_reward, submitted, tampered>>

\* The loop body of is_chain_valid for i, i+1, ... (i is the Python index).
RECURSIVE ValidFrom(_, _, _)
ValidFrom(i, c, heap) ==
    IF i >= Len(c) THEN TRUE
    ELSE LET current_block == c[i + 1]
             previous_block == c[i]
         IN  IF current_block.hash # CalculateHash(current_block, heap) THEN FALSE
             ELSE IF current_block.previous_hash # previous_block.hash THEN FALSE
             ELSE ValidFrom(i + 1, c, heap)

\* is_chain_valid that also compares the genesis block's stored hash with
\* its digest.
IsChainValid_WithGenesis(c, heap) ==
    c[1].hash = CalculateHash(c[1], heap) /\ ValidFrom(1, c, heap)

\* is_chain_valid that also wants every block after the genesis block to
\* meet the proof-of-work target.
IsChainValid_WithTarget(c, heap) ==
    /\ ValidFrom(1, c, heap)
    /\ \A i \in 2 .. Len(c) : Prefix(c[i].hash, difficulty) = Target(difficulty)

\* EnergyBlockchain.is_chain_valid
IsChainValid(c, heap) == ValidFrom(1, c, heap)

\* transaction.get(key, default)
Get(t, key, default) == IF key \in DOMAIN t THEN t[key] ELSE default

\* The inner loop of get_balance with credit and debit exchanged.
RECURSIVE BalanceOfList_Swapped(_, _)
BalanceOfList_Swapped(s, address) ==
    IF s = <<>> THEN 0
    ELSE (IF Get(s[1], "from", "") = address THEN Get(s[1], "total_cost", 0) ELSE 0)
         - (IF Get(s[1], "to", "") = address THEN Get(s[1], "total_cost", 0) ELSE 0)
         + BalanceOfList_Swapped(Tail(s), address)

\* The inner loop of get_balance with `elif` for the second test.
RECURSIVE BalanceOfList_Elif(_, _)
BalanceOfList_Elif(s, address) ==
    IF s = <<>> THEN 0
    ELSE (IF Get(s[1], "to", "") = address THEN Get(s[1], "total_cost", 0)
          ELSE IF Get(s[1], "from", "") = address THEN 0 - Get(s[1], "total_cost", 0)
          ELSE 0)
         + BalanceOfList_Elif(Tail(s), address)

\* The inner loop of get_balance without the debit.
RECURSIVE BalanceOfList_CreditOnly(_, _)
BalanceOfList_CreditOnly(s, address) ==
    IF s = <<>> THEN 0
    ELSE (IF Get(s[1], "to", "") = address THEN Get(s[1], "total_cost", 0) ELSE 0)
         + BalanceOfList_CreditOnly(Tail(s), address)

\* The inner loop of get_balance over one block's transactions.
RECURSIVE BalanceOfList(_, _)
BalanceOfList(s, address) ==
    IF s = <<>> THEN 0
    ELSE (IF Get(s[1], "to", "") = address THEN Get(s[1], "total_cost", 0) ELSE 0)
         - (IF Get(s[1], "from", "") = address THEN Get(s[1], "total_cost", 0) ELSE 0)
         + BalanceOfList(Tail(s), address)

\* EnergyBlockchain.get_balance
RECURSIVE GetBalance(_, _, _)
GetBalance(c, heap, address) ==
    IF c = <<>> THEN 0
    ELSE BalanceOfList(heap[c[1].transactions], address)
         + GetBalance(Tail(c), heap, address)

\* The inner loop of get_transaction_history with one test per side, so
\* that a record from a to a is listed twice.
RECURSIVE HistoryOfList_Twice(_, _, _)
HistoryOfList_Twice(s, index, address) ==
    IF s = <<>> THEN <<>>
    ELSE (IF Get(s[1], "to", "") = address
          THEN <<[block |-> index, transaction |-> s[1]]>> ELSE <<>>)
         \o (IF Get(s[1], "from", "") = address
             THEN <<[block |-> index, transaction |-> s[1]]>> ELSE <<>>)
         \o HistoryOfList_Twice(Tail(s), index, address)

\* The inner loop of get_transaction_history over one block's transactions.
RECURSIVE HistoryOfList(_, _, _)
HistoryOfList(s, index, address) ==
    IF s = <<>> THEN <<>>
    ELSE (IF Get(s[1], "to", "") = address \/ Get(s[1], "from", "") = address
          THEN <<[block |-> index, transaction |-> s[1]]>> ELSE <<>>)
         \o HistoryOfList(Tail(s), index, address)

\* EnergyBlockchain.get_transaction_history
RECURSIVE GetTransactionHistory(_, _, _)
GetTransactionHistory(c, heap, address) ==
    IF c = <<>> THEN <<>>
    ELSE HistoryOfList(heap[c[1].transactions], c[1].index, address)
         \o GetTransactionHistory(Tail(c), heap, address)

RECURSIVE Reverse(_)
Reverse(s) == IF s = <<>> THEN <<>> ELSE Append(Reverse(Tail(s)), s[1])

\* get_transaction_history turning every block's list around in place
\* (newest first) before it collects.
GetTransactionHistoryCall_Reversing(address) ==
    /\ lists' = [r \in DOMAIN lists |->
                    IF \E i \in 1 .. Len(chain) : chain[i].transactions = r
                    THEN Reverse(lists[r]) ELSE lists[r]]
    /\ ret' = [op |-> "get_transaction_history", arg |-> Some(address),
               val |-> Some(GetTransactionHistory(chain, lists', address)),
               out |-> <<>>]
    /\ UNCHANGED <<contracts, executed, seal, raced,
                   chain, pending_transactions, difficulty,
                   mining_reward, clock, submitted, tampered>>

\* A call of get_transaction_history.
GetTransactionHistoryCall(address) ==
    /\ ret' = [op |-> "get_transaction_history", arg |-> Some(address),
               val |-> Some(GetTransactionHistory(chain, lists, address)),
               out |-> <<>>]
    /\ UNCHANGED <<contracts, executed, seal, raced,
                   chain, lists, pending_transactions, difficulty,
                   mining_reward, clock, submitted, tampered>>

\* A call of is_chain_valid.
IsChainValidCall ==
    /\ ret' = [op |-> "is_chain_valid", arg |-> None,
               val |-> Some(IsChainValid(chain, lists)), out |-> <<>>]
    /\ UNCHANGED <<contracts, executed, seal, raced,
                   chain, lists, pending_transactions, difficulty,
                   mining_reward, clock, submitted, tampered>>

\* A call of get_balance.
GetBalanceCall(address) ==
    /\ ret' = [op |-> "get_balance", arg |-> Some(address),
               val |-> Some(GetBalance(chain, lists, address)), out |-> <<>>]
    /\ UNCHANGED <<contracts, executed, seal, raced,
                   chain, lists, pending_transactions, difficulty,
                   mining_reward, clock, submitted, tampered>>

Next ==
    \/ \E t \in TradeRecords : AddTransaction(t)
    \/ \E m \in Miners : MinePendingTransactions(m)
    \/ IsChainValidCall
    \/ \E a \in Addresses : GetBalanceCall(a)
    \/ \E a \in Addresses : GetTransactionHistoryCall(a)

Spec == Init /\ [][Next]_vars

\* ------------------------------------------- out-of-band modification
\* Somebody with access to the objects assigns one field of a stored block
\* and leaves block.hash alone.  n is the Python index of the block.
TamperField(n, field, value) ==
    /\ tampered = None
    /\ n + 1 \in 1 .. Len(chain)
    /\ chain[n + 1][field] # value
    /\ chain' = [chain EXCEPT ![n + 1][field] = value]
    /\ tampered' = Some([block |-> n, field |-> field])
    /\ UNCHANGED <<contracts, executed, seal, raced,
                   lists, pending_transactions, difficulty, mining_reward, clock,
                   submitted, ret>>

TamperIndex(n) == \E v \in {0, Len(chain)} : TamperField(n, "index", v)

TamperTimestamp(n) == \E v \in {0} \cup Times : TamperField(n, "timestamp", v)

TamperNonce(n) ==
    \E v \in {0, chain[n + 1].nonce + 1} : TamperField(n, "nonce", v)

TamperPreviousHash(n) ==
    \E h \in {GenesisPreviousHash, chain[n + 1].hash} :
        TamperField(n, "previous_hash", h)

\* The contents somebody may give to a block's transaction list.
TamperedContents(old) ==
    {Append(old, t) : t \in {r \in TradeRecords : r.from = "B"}}
      \cup (IF old = <<>> THEN {}
            ELSE {SubSeq(old, 1, Len(old) - 1),
                  [old EXCEPT ![1].total_cost = @ + 1]})

\* block.transactions is changed in place (the list object is edited).
TamperTransactions(n) ==
    /\ tampered = None
    /\ n + 1 \in 1 .. Len(chain)
    /\ \E new \in TamperedContents(lists[chain[n + 1].transactions]) :
          /\ new # lists[chain[n + 1].transactions]
          /\ lists' = [lists EXCEPT ![chain[n + 1].transactions] = new]
    /\ tampered' = Some([block |-> n, field |-> "transactions"])
    /\ UNCHANGED <<contracts, executed, seal, raced,
                   chain, pending_transactions, difficulty, mining_reward, clock,
                   submitted, ret>>

Tamper ==
    \E n \in 0 .. Len(chain) - 1 :
        \/ TamperIndex(n)
        \/ TamperTimestamp(n)
        \/ TamperNonce(n)
        \/ TamperPreviousHash(n)
        \/ TamperTransactions(n)

\* A call of chain[n].calculate_hash().
CalculateHashCall(n) ==
    /\ ret' = [op |-> "calculate_hash", arg |-> Some(n),
               val |-> Some(CalculateHash(chain[n + 1], lists)), out |-> <<>>]
    /\ UNCHANGED <<contracts, executed, seal, raced,
                   chain, lists, pending_transactions, difficulty,
                   mining_reward, clock, submitted, tampered>>

\* The ledger with one miner, and somebody editing a stored block once.
NextTamper ==
    \/ \E t \in TradeRecords : AddTransaction(t)
    \/ MinePendingTransactions("M")
    \/ Tamper
    \/ tampered # None /\ IsChainValidCall

SpecTamper == Init /\ [][NextTamper]_vars

\* The ledger with one miner and one customer, somebody editing a stored
\* block once, and an auditor recomputing digests.
NextHash ==
    \/ \E t \in {r \in TradeRecords : r.from = "B"} : AddTransaction(t)
    \/ MinePendingTransactions("M")
    \/ Tamper
    \/ \E n \in 0 .. Len(chain) - 1 : CalculateHashCall(n)

SpecHash == Init /\ [][NextHash]_vars

\* ------------------------------------------------- re-hash without mining
\* Somebody edits the last block of the chain and then assigns
\* block.hash = block.calculate_hash(); mine_block is not called.
ForgeTransactions ==
    LET n == Len(chain)
    IN  /\ tampered = None
        /\ \E new \in TamperedContents(lists[chain[n].transactions]) :
              /\ new # lists[chain[n].transactions]
              /\ lists' = [lists EXCEPT ![chain[n].transactions] = new]
              /\ chain' = [chain EXCEPT ![n].hash = CalculateHash(chain[n], lists')]
        /\ tampered' = Some([block |-> n - 1, field |-> "transactions"])
        /\ UNCHANGED <<pending_transactions, difficulty, mining_reward, clock,
                       submitted, ret, contracts, executed, seal, raced>>

ForgeIndex ==
    LET n == Len(chain)
    IN  /\ tampered = None
        /\ \E v \in {0, n} :
              /\ v # chain[n].index
              /\ LET b == [chain[n] EXCEPT !.index = v]
                 IN  chain' = [chain EXCEPT
                                 ![n] = [b EXCEPT !.hash = CalculateHash(b, lists)]]
        /\ tampered' = Some([block |-> n - 1, field |-> "index"])
        /\ UNCHANGED <<lists, pending_transactions, difficulty, mining_reward, clock,
                       submitted, ret, contracts, executed, seal, raced>>

\* The ledger with one miner, and somebody re-hashing an edited last block.
NextForge ==
    \/ \E t \in TradeRecords : AddTransaction(t)
    \/ MinePendingTransactions("M")
    \/ ForgeTransactions
    \/ ForgeIndex
    \/ IsChainValidCall

SpecForge == Init /\ [][NextForge]_vars

\* ----------------------------------------------------- contract objects
\* SmartContract.__init__ for one of the contracts, each constructed once.
SmartContractInit(c) ==
    /\ \A k \in 1 .. Len(contracts) : contracts[k].contract_id # c[1]
    /\ \E ts \in Now :
          /\ clock' = ts
          /\ contracts' = Append(contracts,
                 [contract_id |-> c[1], producer |-> c[2], consumer |-> c[3],
                  energy_kwh |-> c[4], price |-> c[5],
                  status |-> "pending", timestamp |-> ts])
    /\ executed' = Append(executed, <<>>)
    /\ ret' = [op |-> "SmartContract", arg |-> Some(c[1]), val |-> None, out |-> <<>>]
    /\ UNCHANGED <<chain, lists, pending_transactions, difficulty, mining_reward,
                   submitted, tampered, seal, raced>>

\* The dict that contracts[k].execute() builds.
Transaction(self) ==
    ExecuteRecord(self.contract_id, self.producer, self.consumer,
                  self.energy_kwh, self.price, self.timestamp)

\* execute refusing a contract that is already completed.
Execute_Guarded(k) ==
    /\ Len(executed[k]) < MaxExecute
    /\ IF contracts[k].status = "completed"
       THEN /\ ret' = [op |-> "execute", arg |-> Some(k), val |-> None,
                       out |-> <<"already executed">>]
            /\ UNCHANGED <<contracts, executed>>
       ELSE /\ contracts' = [contracts EXCEPT ![k].status = "completed"]
            /\ executed' = [executed EXCEPT ![k] = Append(@, Transaction(contracts[k]))]
            /\ ret' = [op |-> "execute", arg |-> Some(k),
                       val |-> Some(Transaction(contracts[k])), out |-> <<>>]
    /\ UNCHANGED <<chain, lists, pending_transactions, difficulty, mining_reward,
                   clock, submitted, tampered, seal, raced>>

\* contracts[k].execute()
Execute(k) ==
    /\ Len(executed[k]) < MaxExecute
    /\ contracts' = [contracts EXCEPT ![k].status = "completed"]
    /\ executed' = [executed EXCEPT ![k] = Append(@, Transaction(contracts[k]))]
    /\ ret' = [op |-> "execute", arg |-> Some(k),
               val |-> Some(Transaction(contracts[k])), out |-> <<>>]
    /\ UNCHANGED <<chain, lists, pending_transactions, difficulty, mining_reward,
                   clock, submitted, tampered, seal, raced>>

\* Contracts are made and executed; as in main(), the record an execute
\* returned is handed to add_transaction; one miner seals.
NextContract ==
    \/ \E c \in {x \in Contracts : x[2] = "A"} : SmartContractInit(c)
    \/ \E k \in 1 .. Len(contracts) : Execute(k)
    \/ ret.op = "execute" /\ AddTransaction(ret.val[1])
    \/ MinePendingTransactions("M")

SpecContract == Init /\ [][NextContract]_vars

\* ------------------------------------------ two threads on one ledger
\* mine_pending_transactions running in one thread, statement by statement,
\* while another thread calls add_transaction.  seal is the running call's
\* frame: where it stands, its miner_address, its local new_block.

\* The call up to the construction of new_block, the list copied into the
\* block: transactions=list(self.pending_transactions).
SealBegin_Snapshot(miner_address) ==
    /\ seal = None
    /\ IF IsEmptyPool(Pending)
       THEN /\ ret' = [op |-> "mine_pending_transactions", arg |-> Some(miner_address),
                       val |-> None, out |-> <<"No transactions to mine">>]
            /\ UNCHANGED <<lists, clock, seal, raced>>
       ELSE /\ Len(chain) < MaxChain
            /\ \E ts \in Now :
                  /\ clock' = ts
                  /\ lists' = Append(lists, Pending)
                  /\ seal' = Some([pc |-> "mine_block",
                                   miner_address |-> miner_address,
                                   difficulty |-> difficulty,
                                   new_block |-> NewBlock(Len(chain), ts, Len(lists) + 1,
                                                     GetLatestBlock(chain).hash, lists')])
            /\ raced' = <<>>
            /\ UNCHANGED ret
    /\ UNCHANGED <<chain, pending_transactions, difficulty, mining_reward,
                   submitted, tampered, contracts, executed>>

\* The call up to the construction of new_block, which is handed the pool's
\* own list.
SealBegin(miner_address) ==
    /\ seal = None
    /\ IF IsEmptyPool(Pending)
       THEN /\ ret' = [op |-> "mine_pending_transactions", arg |-> Some(miner_address),
                       val |-> None, out |-> <<"No transactions to mine">>]
            /\ UNCHANGED <<lists, clock, seal, raced>>
       ELSE /\ Len(chain) < MaxChain
            /\ \E ts \in Now :
                  /\ clock' = ts
                  /\ seal' = Some([pc |-> "mine_block",
                                   miner_address |-> miner_address,
                                   difficulty |-> difficulty,
                                   new_block |-> NewBlock(Len(chain), ts, pending_transactions,
                                                     GetLatestBlock(chain).hash, lists)])
            /\ raced' = <<>>
            /\ UNCHANGED <<lists, ret>>
    /\ UNCHANGED <<chain, pending_transactions, difficulty, mining_reward,
                   submitted, tampered, contracts, executed>>

\* The loop of mine_block leaving at once, whatever the hash.
SealMine_NoLoop ==
    /\ seal # None
    /\ seal[1].pc = "mine_block"
    /\ seal' = Some([seal[1] EXCEPT !.pc = "append"])
    /\ UNCHANGED <<chain, lists, pending_transactions, difficulty, mining_reward,
                   clock, submitted, ret, tampered, contracts, executed, raced>>

\* One turn of the while loop of mine_block(difficulty): another nonce and
\* the digest of what the block's list holds now, or the exit.  The nonce is
\* followed up to MaxNonce.
SealMine ==
    /\ seal # None
    /\ seal[1].pc = "mine_block"
    /\ LET b == seal[1].new_block
           d == seal[1].difficulty
       IN  IF Prefix(b.hash, d) # Target(d)
           THEN /\ b.nonce < MaxNonce
                /\ LET n == [b EXCEPT !.nonce = b.nonce + 1]
                   IN  seal' = Some([seal[1] EXCEPT
                                       !.new_block = [n EXCEPT !.hash = CalculateHash(n, lists)]])
           ELSE seal' = Some([seal[1] EXCEPT !.pc = "append"])
    /\ UNCHANGED <<chain, lists, pending_transactions, difficulty, mining_reward,
                   clock, submitted, ret, tampered, contracts, executed, raced>>

\* The block's hash computed once more just before the block is appended.
SealAppend_Rehash ==
    /\ seal # None
    /\ seal[1].pc = "append"
    /\ chain' = Append(chain, [seal[1].new_block EXCEPT
                                 !.hash = CalculateHash(seal[1].new_block, lists)])
    /\ seal' = Some([seal[1] EXCEPT !.pc = "reset"])
    /\ UNCHANGED <<lists, pending_transactions, difficulty, mining_reward,
                   clock, submitted, ret, tampered, contracts, executed, raced>>

\* self.chain.append(new_block)
SealAppend ==
    /\ seal # None
    /\ seal[1].pc = "append"
    /\ chain' = Append(chain, seal[1].new_block)
    /\ seal' = Some([seal[1] EXCEPT !.pc = "reset"])
    /\ UNCHANGED <<lists, pending_transactions, difficulty, mining_reward,
                   clock, submitted, ret, tampered, contracts, executed, raced>>

\* self.pending_transactions = [reward_transaction], and the return.
SealReset ==
    /\ seal # None
    /\ seal[1].pc = "reset"
    /\ LET reset == ResetPending(lists, pending_transactions,
                        RewardTransaction(seal[1].miner_address, mining_reward))
       IN  /\ lists' = reset.lists
           /\ pending_transactions' = reset.pending
    /\ ret' = [op |-> "mine_pending_transactions",
               arg |-> Some(seal[1].miner_address),
               val |-> MineReturn(seal[1].new_block),
               out |-> <<<<"Mining block", seal[1].new_block.index>>,
                         <<"Block mined successfully", seal[1].new_block.index>>>>]
    /\ seal' = None
    /\ UNCHANGED <<chain, difficulty, mining_reward, clock, submitted,
                   tampered, contracts, executed, raced>>

\* Block(...).mine_block(d) called on a new block that holds the pool's list:
\* the frame is the call's, the block is new_block.
MineBlockCall(d) ==
    /\ seal = None
    /\ \E ts \in Now :
          /\ clock' = ts
          /\ seal' = Some([pc |-> "mine_block",
                           miner_address |-> "",
                           difficulty |-> d,
                           new_block |-> NewBlock(Len(chain), ts, pending_transactions,
                                             GetLatestBlock(chain).hash, lists)])
    /\ UNCHANGED <<chain, lists, pending_transactions, difficulty, mining_reward,
                   submitted, ret, tampered, contracts, executed, raced>>

\* The difficulties mine_block is called with: up to one more than the
\* modelled hex characters of a digest.
MineDifficulties == 0 .. HexDigits + 1

\* Records of one customer come in, then one call of mine_block is followed
\* turn by turn.
NextMine ==
    \/ seal = None /\ \E t \in {r \in TradeRecords : r.from = "B"} : AddTransaction(t)
    \/ \E d \in MineDifficulties : MineBlockCall(d)
    \/ SealMine

SpecMine == Init /\ [][NextMine]_vars

\* The thread in the loop keeps running.
SpecMineFair == SpecMine /\ WF_vars(SealMine)

NextConc ==
    \/ \E t \in TradeRecords : AddTransaction(t)
    \/ SealBegin("M")
    \/ SealMine
    \/ SealAppend
    \/ SealReset
    \/ IsChainValidCall

SpecConc == Init /\ [][NextConc]_vars

\* ================================================================ claims
Sealing == "mine_pending_transactions"

NoOpOutput == <<"No transactions to mine">>

\* hash == digest_of(block) for the block at position i (1-based) of the chain.
HashIsDigest(i) == chain[i].hash = CalculateHash(chain[i], lists)

\* The first d hex characters of h are all '0'.
LeadingZeros(h, d) == Len(h.hex) >= d /\ \A k \in 1 .. d : h.hex[k] = 0

\* C1: in every state reached by add_transaction and mine_pending_transactions
\* calls, every stored block's hash is the digest of its current fields and
\* every block but the first carries the hash of its predecessor.
C1_ChainIntegrity ==
    \A i \in 1 .. Len(chain) :
        /\ HashIsDigest(i)
        /\ i >= 2 => chain[i].previous_hash = chain[i - 1].hash

C1_Witness ==
    /\ Len(chain) = 3
    /\ ret.op = Sealing
    /\ chain[3].previous_hash = chain[2].hash
    /\ chain[2].hash # chain[1].hash

\* C2: after one field of chain[n], n > 0, was given a different value with
\* the stored hash left alone, is_chain_valid is false.
C2_TamperDetected ==
    (tampered # None /\ tampered[1].block > 0) => ~IsChainValid(chain, lists)

C2_Witness ==
    /\ tampered # None
    /\ tampered[1].block > 0
    /\ tampered[1].field = "timestamp"
    /\ ret.op = "is_chain_valid"
    /\ ret.val = Some(FALSE)

\* C3: on a ledger with only the genesis block and one pending trade from A
\* to B (A # B) of cost c, sealing for M gives a chain of two blocks, a pool
\* holding just the reward to M, balance -c for A, +c for B, and a valid chain.
C3_Scenario ==
    [][(/\ ret'.op = Sealing
        /\ Len(chain) = 1
        /\ Len(Pending) = 1
        /\ Pending[1].type = "energy_trade"
        /\ Pending[1].from # Pending[1].to)
       => (/\ Len(chain') = 2
           /\ Len(Pending') = 1
           /\ Pending'[1].type = "mining_reward"
           /\ Pending'[1].to = ret'.arg[1]
           /\ GetBalance(chain', lists', Pending[1].from) = 0 - Pending[1].total_cost
           /\ GetBalance(chain', lists', Pending[1].to) = Pending[1].total_cost
           /\ IsChainValid(chain', lists'))]_vars

C3_Witness ==
    /\ ret.op = Sealing
    /\ Len(chain) = 2
    /\ Len(lists[chain[2].transactions]) = 1
    /\ lists[chain[2].transactions][1].from = "A"
    /\ lists[chain[2].transactions][1].to = "B"
    /\ GetBalance(chain, lists, "A") = -6
    /\ GetBalance(chain, lists, "B") = 6
    /\ Pending = <<RewardTransaction("M", MiningReward)>>

\* C4: a sealing call on a non-empty pool appends exactly one block, whose
\* index is the old chain length, whose transactions are the old pool (same
\* records, same order) and whose previous_hash is the old last block's hash.
C4_SealAppendsBlock ==
    [][(ret'.op = Sealing /\ Pending # <<>>)
       => (/\ Len(chain') = Len(chain) + 1
           /\ SubSeq(chain', 1, Len(chain)) = chain
           /\ chain'[Len(chain')].index = Len(chain)
           /\ lists'[chain'[Len(chain')].transactions] = Pending
           /\ chain'[Len(chain')].previous_hash = chain[Len(chain)].hash)]_vars

C4_Witness ==
    /\ ret.op = Sealing
    /\ Len(chain) = 3
    /\ chain[3].index = 2
    /\ Len(lists[chain[3].transactions]) = 2
    /\ lists[chain[3].transactions][1].type = "mining_reward"
    /\ lists[chain[3].transactions][2].type = "energy_trade"

\* C5: after a sealing call on a non-empty pool the pool is a list of exactly
\* one record, the reward from "network" to the miner of amount mining_reward,
\* and no trade record of the old pool is in it.
C5_PoolResetToReward ==
    [][(ret'.op = Sealing /\ Pending # <<>>)
       => (/\ Len(Pending') = 1
           /\ Pending'[1].from = "network"
           /\ Pending'[1].to = ret'.arg[1]
           /\ Pending'[1].total_cost = mining_reward
           /\ Pending'[1].type = "mining_reward"
           /\ pending_transactions' # pending_transactions
           /\ \A i \in 1 .. Len(Pending) :
                 Pending[i].type = "energy_trade" => Pending[i] # Pending'[1])]_vars

C5_Witness ==
    /\ ret.op = Sealing
    /\ ret.arg = Some("A")
    /\ Len(chain) = 3
    /\ Len(lists[chain[3].transactions]) = 2
    /\ Pending = <<RewardTransaction("A", 1)>>

\* C6: a sealing call on an empty pool appends no block, creates no reward
\* record, leaves chain and pool as they were and only reports the no-op.
C6_EmptySealIsNoOp ==
    [][(ret'.op = Sealing /\ Pending = <<>>)
       => (/\ chain' = chain
           /\ lists' = lists
           /\ pending_transactions' = pending_transactions
           /\ ret'.val = None
           /\ ret'.out = NoOpOutput)]_vars

C6_Witness ==
    /\ ret.op = Sealing
    /\ ret.out = NoOpOutput
    /\ Pending = <<>>
    /\ Len(chain) = 1

\* C7 as stated: a sealing call on a non-empty pool returns the block it
\* appended, i.e. chain[-1].
C7_ReturnsNewBlock ==
    (ret.op = Sealing /\ ret.out # NoOpOutput) => ret.val = Some(GetLatestBlock(chain))

\* C7 amended: every sealing call returns None, on a non-empty pool as on an
\* empty one; the appended block is chain[-1] and the outcomes differ in the
\* printed report only.
C7_ReturnsNone ==
    ret.op = Sealing =>
        /\ ret.val = None
        /\ ret.out # NoOpOutput =>
              ret.out[1] = <<"Mining block", GetLatestBlock(chain).index>>

C7_Witness ==
    /\ ret.op = Sealing
    /\ ret.out # NoOpOutput
    /\ Len(chain) = 2
    /\ ret.val = None

\* C8: every block that mine_block returned has hash = digest at its final
\* nonce, with `difficulty` leading '0' characters; at difficulty 0 the nonce
\* is still 0.
C8_ProofOfWork ==
    \A i \in 1 .. Len(chain) :
        /\ chain[i].hash = CalculateHash(chain[i], lists)
        /\ LeadingZeros(chain[i].hash, difficulty)
        /\ difficulty = 0 => chain[i].nonce = 0

C8_Witness ==
    /\ difficulty = 1
    /\ Len(chain) = 3
    /\ \A i \in 1 .. 3 : chain[i].nonce > 0 /\ chain[i].hash.hex[1] = 0

\* C9: the chain is never empty and chain[0] is the genesis block: index 0,
\* no transactions, previous_hash "0", mined at the ledger's difficulty; no
\* other block has index 0.
C9_Genesis ==
    /\ Len(chain) >= 1
    /\ chain[1].index = 0
    /\ lists[chain[1].transactions] = <<>>
    /\ chain[1].previous_hash = GenesisPreviousHash
    /\ HashIsDigest(1)
    /\ LeadingZeros(chain[1].hash, difficulty)
    /\ \A i \in 2 .. Len(chain) : chain[i].index # 0

C9_Witness ==
    /\ Len(chain) = 3
    /\ difficulty = 1
    /\ chain[1].nonce > 0
    /\ Len(submitted) = 2

\* C10: no call removes, moves or changes a block of the chain: every block
\* stays at its position with the same index, timestamp, transactions,
\* previous_hash, nonce and hash.
C10_AppendOnly ==
    [][/\ Len(chain') >= Len(chain)
       /\ \A i \in 1 .. Len(chain) :
             /\ chain'[i] = chain[i]
             /\ lists'[chain'[i].transactions] = lists[chain[i].transactions]]_vars

C10_Witness ==
    /\ ret.op = "add_transaction"
    /\ Len(chain) = 2
    /\ Len(Pending) = 2
    /\ Len(lists[chain[2].transactions]) = 1
\* The positions <<i, j>> of the records stored in the chain: record j of
\* block i (both 1-based), and the record at a position.
ChainPositions ==
    UNION {{<<i, j>> : j \in 1 .. Len(lists[chain[i].transactions])} :
              i \in 1 .. Len(chain)}

RecordAt(p) == lists[chain[p[1]].transactions][p[2]]

RECURSIVE TotalCost(_)
TotalCost(ps) ==
    IF ps = {} THEN 0
    ELSE LET p == CHOOSE q \in ps : TRUE
         IN  RecordAt(p).total_cost + TotalCost(ps \ {p})

\* C11: get_balance(a) is the total_cost of the chain's records with to = a
\* minus that of the chain's records with from = a; a record from a to a
\* counts 0 and the pending records count nothing.
C11_BalanceIsReplay ==
    \A a \in Addresses \cup {"network"} :
        GetBalance(chain, lists, a)
          = TotalCost({p \in ChainPositions : RecordAt(p).to = a})
              - TotalCost({p \in ChainPositions : RecordAt(p).from = a})

C11_Witness ==
    /\ ret.op = "get_balance"
    /\ ret.arg = Some("A")
    /\ ret.val = Some(-6)
    /\ Len(chain) = 2
    /\ Len(lists[chain[2].transactions]) = 2
    /\ \E j \in 1 .. 2 : /\ lists[chain[2].transactions][j].from = "A"
                         /\ lists[chain[2].transactions][j].to = "A"
    /\ Pending = <<RewardTransaction("A", MiningReward)>>
\* The addresses that appear as from or to of a record stored in the chain.
ChainAddresses ==
    {RecordAt(p).from : p \in ChainPositions} \cup {RecordAt(p).to : p \in ChainPositions}

RECURSIVE TotalBalance(_)
TotalBalance(as) ==
    IF as = {} THEN 0
    ELSE LET a == CHOOSE x \in as : TRUE
         IN  GetBalance(chain, lists, a) + TotalBalance(as \ {a})

\* C12: when no record of the chain comes from "network", the balances of
\* all addresses that appear in the chain add up to 0.
C12_Conservation ==
    (\A p \in ChainPositions : RecordAt(p).from # "network")
        => TotalBalance(ChainAddresses) = 0

C12_Witness ==
    /\ Len(chain) = 2
    /\ Len(lists[chain[2].transactions]) = 2
    /\ \A p \in ChainPositions : RecordAt(p).from # "network"
    /\ ChainAddresses = {"A", "B"}
    /\ GetBalance(chain, lists, "A") = -1
    /\ GetBalance(chain, lists, "B") = 1
Queries == {"get_balance", "get_transaction_history", "is_chain_valid"}

\* What the query named op returns for argument arg on chain c and heap.
QueryResult(op, arg, c, heap) ==
    IF op = "get_balance" THEN Some(GetBalance(c, heap, arg[1]))
    ELSE IF op = "get_transaction_history"
         THEN Some(GetTransactionHistory(c, heap, arg[1]))
    ELSE Some(IsChainValid(c, heap))

\* C13: get_balance, get_transaction_history and is_chain_valid leave chain
\* and pool as they were, and the value a query returns is the value the same
\* query returns when it is called again right after.
C13_QueriesArePure ==
    [][ret'.op \in Queries
       => (/\ chain' = chain
           /\ lists' = lists
           /\ pending_transactions' = pending_transactions
           /\ ret'.val = QueryResult(ret'.op, ret'.arg, chain', lists'))]_vars

C13_Witness ==
    /\ ret.op = "get_transaction_history"
    /\ ret.arg = Some("A")
    /\ Len(ret.val[1]) = 2
    /\ Len(chain) = 2
    /\ Len(Pending) = 1

\* The positions of the chain's records that have address a as from or to,
\* and the order of positions: by block, then inside the block.
Touching(a) ==
    {p \in ChainPositions : RecordAt(p).from = a \/ RecordAt(p).to = a}

Before(q, p) == q[1] < p[1] \/ (q[1] = p[1] /\ q[2] < p[2])

\* C14: get_transaction_history(a) lists exactly the chain's records with
\* from = a or to = a, once each, in chain order, each with the index of its
\* block; pending records are not listed.
C14_HistoryIsReplay ==
    \A a \in Addresses \cup {"network"} :
        LET h == GetTransactionHistory(chain, lists, a)
        IN  /\ Len(h) = Cardinality(Touching(a))
            /\ \A p \in Touching(a) :
                  h[Cardinality({q \in Touching(a) : Before(q, p)}) + 1]
                    = [block |-> chain[p[1]].index, transaction |-> RecordAt(p)]

C14_Witness ==
    /\ ret.op = "get_transaction_history"
    /\ ret.arg = Some("A")
    /\ Len(chain) = 3
    /\ Len(ret.val[1]) = 3
    /\ ret.val[1][1].block = 1
    /\ ret.val[1][1].transaction.from = "A"
    /\ ret.val[1][1].transaction.to = "A"
    /\ ret.val[1][2].block = 2
    /\ ret.val[1][2].transaction.type = "mining_reward"
    /\ ret.val[1][3].block = 2
    /\ Len(Pending) = 1
\* C15: add_transaction takes every record while the submission budget
\* lasts, whatever the producer's balance; the step puts the record at the
\* end of the pool, leaves the chain alone, and get_balance,
\* get_transaction_history and is_chain_valid answer as before.
C15_SubmitOnlyAppends ==
    /\ [](Len(submitted) < MaxSubmitted
            => \A t \in TradeRecords : ENABLED AddTransaction(t))
    /\ [][ret'.op = "add_transaction"
           => (/\ lists'[pending_transactions'] = Append(Pending, ret'.arg[1])
               /\ ret'.val = None
               /\ ret'.out = <<>>
               /\ chain' = chain
               /\ \A i \in 1 .. Len(chain) :
                     lists'[chain[i].transactions] = lists[chain[i].transactions]
               /\ IsChainValid(chain', lists') = IsChainValid(chain, lists)
               /\ \A a \in Addresses \cup {"network"} :
                     /\ GetBalance(chain', lists', a) = GetBalance(chain, lists, a)
                     /\ GetTransactionHistory(chain', lists', a)
                          = GetTransactionHistory(chain, lists, a))]_vars

\* A record of cost 6 from A is taken although A's balance is -5.
C15_Witness ==
    /\ ret.op = "add_transaction"
    /\ ret.arg[1].from = "A"
    /\ ret.arg[1].total_cost = 6
    /\ GetBalance(chain, lists, "A") = -5
    /\ Len(Pending) = 2
    /\ Pending[2] = ret.arg[1]
    /\ Pending[1].type = "mining_reward"
\* The stored hashes found in the chain, and the literal "0".
StoredHashes == {chain[j].hash : j \in 1 .. Len(chain)} \cup {GenesisPreviousHash}

\* C18: the digest of a block is a function of index, timestamp, the
\* transactions in order, previous_hash and nonce: a block that differs from
\* a chain block only in its stored hash or in which list object holds the
\* same transactions has the same digest; a call of calculate_hash assigns
\* nothing, and the value it returned is the value a second call returns.
C18_HashDeterminism ==
    /\ [](\A i \in 1 .. Len(chain) : \A r \in DOMAIN lists : \A x \in StoredHashes :
             lists[r] = lists[chain[i].transactions]
               => CalculateHash([chain[i] EXCEPT !.transactions = r, !.hash = x], lists)
                    = CalculateHash(chain[i], lists))
    /\ [][ret'.op = "calculate_hash" /\ tampered' = tampered
           => (/\ chain' = chain
               /\ lists' = lists
               /\ ret'.val = Some(CalculateHash(chain'[ret'.arg[1] + 1], lists')))]_vars

\* calculate_hash is called on a block whose stored hash is stale, while
\* another list object holds the same transactions as that block's list.
C18_Witness ==
    /\ ret.op = "calculate_hash"
    /\ Len(chain) = 3
    /\ ret.arg = Some(2)
    /\ ret.val # Some(chain[3].hash)
    /\ pending_transactions # chain[3].transactions
    /\ Pending = lists[chain[3].transactions]
\* Block i (1-based, i > 1) carries the stored hash of the block before it.
LinkedToPrevious(i) == chain[i].previous_hash = chain[i - 1].hash

\* C20: is_chain_valid is false exactly when some block after the genesis
\* block has a stored hash that is not its digest or a previous_hash that is
\* not the stored hash of the block before it; the genesis block's stored
\* hash is not compared with its digest, so a genesis block whose timestamp
\* or transactions were changed leaves the chain valid, and a chain of one
\* block is valid.
C20_ValidityIsPairwise ==
    /\ IsChainValid(chain, lists)
         = (\A i \in 2 .. Len(chain) : HashIsDigest(i) /\ LinkedToPrevious(i))
    /\ (/\ tampered # None
        /\ tampered[1].block = 0
        /\ tampered[1].field \in {"timestamp", "transactions"})
         => IsChainValid(chain, lists)
    /\ Len(chain) = 1 => IsChainValid(chain, lists)

\* The genesis block's transactions were changed, its stored hash is stale,
\* and is_chain_valid on the chain of three blocks answered True.
C20_Witness ==
    /\ tampered # None
    /\ tampered[1].block = 0
    /\ tampered[1].field = "transactions"
    /\ ~HashIsDigest(1)
    /\ Len(chain) = 3
    /\ ret.op = "is_chain_valid"
    /\ ret.val = Some(TRUE)
\* C16: a call of execute returns one dict whose from, to, energy_kwh and
\* price_per_kwh are the contract's producer, consumer, energy_kwh and price
\* and whose total_cost is energy_kwh * price; the contract is completed
\* afterwards (a pending one becomes completed), and the ledger's chain, its
\* lists and its pool are what they were.
C16_ExecuteBuildsRecord ==
    /\ [](\A k \in 1 .. Len(contracts) :
             executed[k] = <<>> => contracts[k].status = "pending")
    /\ [][ret'.op = "execute" =>
         LET k == ret'.arg[1]
             self == contracts[k]
         IN  /\ Len(ret'.val) = 1
             /\ ret'.val[1].from = self.producer
             /\ ret'.val[1].to = self.consumer
             /\ ret'.val[1].energy_kwh = self.energy_kwh
             /\ ret'.val[1].price_per_kwh = self.price
             /\ ret'.val[1].total_cost = self.energy_kwh * self.price
             /\ contracts'[k].status = "completed"
             /\ chain' = chain
             /\ lists' = lists
             /\ pending_transactions' = pending_transactions]_vars

\* The first execute of SC001 (2 kWh at 3) while the ledger holds a sealed
\* block and a pool with the reward.
C16_Witness ==
    /\ ret.op = "execute"
    /\ ret.val[1].contract_id = "SC001"
    /\ ret.val[1].total_cost = 6
    /\ Len(executed[ret.arg[1]]) = 1
    /\ contracts[ret.arg[1]].status = "completed"
    /\ Len(chain) = 2
    /\ Len(Pending) = 1

\* C17: execute on a completed contract raises nothing and returns a dict;
\* every dict a contract's execute returned agrees with the first one in all
\* keys but possibly 'timestamp'; a completed contract stays completed.
C17_ExecuteTwice ==
    /\ [](\A k \in 1 .. Len(contracts) : \A n \in 1 .. Len(executed[k]) :
             /\ contracts[k].status = "completed"
             /\ DOMAIN executed[k][n] = DOMAIN executed[k][1]
             /\ \A f \in DOMAIN executed[k][n] \ {"timestamp"} :
                   executed[k][n][f] = executed[k][1][f])
    /\ [][ret'.op = "execute" /\ contracts[ret'.arg[1]].status = "completed"
            => (/\ ret'.out = <<>>
                /\ ret'.val # None
                /\ executed'[ret'.arg[1]] = Append(executed[ret'.arg[1]], ret'.val[1]))]_vars
    /\ [][\A k \in 1 .. Len(contracts) :
             contracts[k].status = "completed" => contracts'[k].status = "completed"]_vars

C17_Witness ==
    /\ ret.op = "execute"
    /\ Len(executed[ret.arg[1]]) = 2
    /\ executed[ret.arg[1]][2] = executed[ret.arg[1]][1]
    /\ ret.val = Some(executed[ret.arg[1]][2])
    /\ contracts[ret.arg[1]].status = "completed"
\* Record t is an element of list s.
InList(t, s) == \E j \in 1 .. Len(s) : s[j] = t

\* C19 as stated: once mine_pending_transactions has returned, a record
\* that add_transaction put in while the call stood between the construction
\* of the block and the reset of the pool is neither in the pool nor in the
\* transactions of any block.
C19_SilentlyLost ==
    seal = None =>
        \A k \in 1 .. Len(raced) :
            /\ ~InList(raced[k], Pending)
            /\ \A i \in 1 .. Len(chain) : ~InList(raced[k], lists[chain[i].transactions])

\* C19: the records that add_transaction put in while the call stood between
\* the construction of the block and the reset of the pool are, once the call
\* has returned, the last transactions of the block it sealed, in the order
\* of their arrival; the reset leaves the pool holding just the reward.
C19_RacedIsSealed ==
    /\ []((seal = None /\ raced # <<>>) =>
             LET s == lists[chain[Len(chain)].transactions]
             IN  /\ Len(s) >= Len(raced)
                 /\ SubSeq(s, Len(s) - Len(raced) + 1, Len(s)) = raced)
    /\ [][(seal # None /\ seal' = None) =>
             /\ Pending' = <<RewardTransaction(seal[1].miner_address, mining_reward)>>
             /\ ret'.op = Sealing
             /\ ret'.val = None]_vars

\* The call has returned, the record that came in meanwhile is the second
\* transaction of the sealed block, and the block's stored hash is not the
\* digest of what it holds.
C19_Witness ==
    /\ seal = None
    /\ ret.op = Sealing
    /\ Len(raced) = 1
    /\ Len(chain) = 2
    /\ Len(lists[chain[2].transactions]) = 2
    /\ lists[chain[2].transactions][2] = raced[1]
    /\ ~InList(raced[1], Pending)
    /\ ~HashIsDigest(2)
\* The transactions of the blocks from position i on, one after the other.
RECURSIVE ChainRecordsFrom(_)
ChainRecordsFrom(i) ==
    IF i > Len(chain) THEN <<>>
    ELSE lists[chain[i].transactions] \o ChainRecordsFrom(i + 1)

\* A sequence of records without the rewards that sealing made up.
WithoutRewards(s) == SelectSeq(s, LAMBDA t : t.type # "mining_reward")

\* C22: with add_transaction and mine_pending_transactions called one after
\* the other, the transactions of the chain's blocks in order followed by the
\* pool, rewards left out, are the records given to add_transaction so far,
\* in the order they were given.
C22_NothingLost ==
    WithoutRewards(ChainRecordsFrom(1) \o Pending) = submitted

\* Two different records, sealed in two different blocks.
C22_Witness ==
    /\ ret.op = Sealing
    /\ Len(chain) = 3
    /\ Len(submitted) = 2
    /\ submitted[1] # submitted[2]
    /\ lists[chain[2].transactions] = <<submitted[1]>>
    /\ Len(lists[chain[3].transactions]) = 2
    /\ lists[chain[3].transactions][2] = submitted[2]
    /\ Len(Pending) = 1
\* C25: once the chain has more than the genesis block the pool is never
\* empty; from then on a call of mine_pending_transactions does not take the
\* empty-pool branch but appends a block, and a call that directly follows a
\* call that sealed appends a block holding just the reward of that earlier
\* call's miner.
C25_PoolNeverEmptyAgain ==
    /\ [](Len(chain) > 1 => Pending # <<>>)
    /\ [][(ret'.op = Sealing /\ Len(chain) > 1)
            => (/\ ret'.out # NoOpOutput
                /\ Len(chain') = Len(chain) + 1)]_vars
    /\ [][(ret'.op = Sealing /\ ret.op = Sealing /\ ret.out # NoOpOutput)
            => lists'[chain'[Len(chain')].transactions]
                 = <<RewardTransaction(ret.arg[1], mining_reward)>>]_vars

\* M sealed, then A sealed with nothing submitted in between.
C25_Witness ==
    /\ ret.op = Sealing
    /\ ret.arg = Some("A")
    /\ Len(chain) = 3
    /\ Len(submitted) = 1
    /\ lists[chain[3].transactions] = <<RewardTransaction("M", MiningReward)>>
    /\ Pending = <<RewardTransaction("A", MiningReward)>>
\* What the records of s add to the balance of a: costs to a less costs from a.
RECURSIVE NetOf(_, _)
NetOf(s, a) ==
    IF s = <<>> THEN 0
    ELSE (IF s[1].to = a THEN s[1].total_cost ELSE 0)
         - (IF s[1].from = a THEN s[1].total_cost ELSE 0)
         + NetOf(Tail(s), a)

\* A call of mine_pending_transactions that appended a block.
Sealed == ret'.op = Sealing /\ Len(chain') = Len(chain) + 1

\* C24 as stated: the block a sealing for m appends does not hold the reward
\* made by that sealing, and get_balance(m) is the same before and after it.
C24_BalanceUnchangedBySeal ==
    [][Sealed =>
         /\ chain'[Len(chain')].transactions # pending_transactions'
         /\ GetBalance(chain', lists', ret'.arg[1]) = GetBalance(chain, lists, ret'.arg[1])]_vars

\* C24: a sealing for m appends a block holding the old pool and binds a new
\* pool holding the reward to m, so the reward it made is not in that block;
\* get_balance(m) moves at that sealing by what the old pool's records add to
\* m (an earlier reward to m, trades of m) and not by the new reward.  After
\* the first sealing the pool starts with the reward to the latest sealing's
\* miner, the chain holds one reward less than sealings were done, and every
\* block from index 2 on starts with the reward that the sealing before it
\* put in the pool.
C24_RewardIsDeferred ==
    /\ [][Sealed =>
            LET m == ret'.arg[1]
                new_block == chain'[Len(chain')]
            IN  /\ new_block.transactions = pending_transactions
                /\ new_block.transactions # pending_transactions'
                /\ lists'[new_block.transactions] = Pending
                /\ lists'[pending_transactions'] = <<RewardTransaction(m, mining_reward)>>
                /\ GetBalance(chain', lists', m)
                     = GetBalance(chain, lists, m) + NetOf(Pending, m)
                /\ Len(chain) >= 2 =>
                     /\ Pending[1].type = "mining_reward"
                     /\ lists'[new_block.transactions][1] = Pending[1]]_vars
    /\ [](Len(chain) >= 2 =>
             /\ Pending # <<>>
             /\ Pending[1].type = "mining_reward"
             /\ Pending[1].from = "network"
             /\ (ret.op = Sealing => Pending[1].to = ret.arg[1])
             /\ Cardinality({p \in ChainPositions : RecordAt(p).type = "mining_reward"})
                  = Len(chain) - 2
             /\ \A i \in 3 .. Len(chain) :
                   lists[chain[i].transactions][1].type = "mining_reward")

\* M sealed twice: the second sealing appended the reward of the first, and
\* get_balance("M") went from 0 to 1 at it, with the second reward in the pool.
C24_Witness ==
    /\ ret.op = Sealing
    /\ ret.arg = Some("M")
    /\ Len(chain) = 3
    /\ lists[chain[3].transactions][1] = RewardTransaction("M", MiningReward)
    /\ GetBalance(chain, lists, "M") = MiningReward
    /\ Pending = <<RewardTransaction("M", MiningReward)>>
\* The running call has left the loop of mine_block and not yet reset the pool.
MiningDone == seal # None /\ seal[1].pc \in {"append", "reset"}

\* The running call's block, or a block of the chain after the genesis
\* block, has a stored hash that is not the digest of what it holds.
StaleHash ==
    \/ MiningDone /\ seal[1].new_block.hash # CalculateHash(seal[1].new_block, lists)
    \/ \E i \in 2 .. Len(chain) : ~HashIsDigest(i)

\* C23: while the call stands between the end of mine_block and the reset,
\* the new block's list is the pool's list; an add_transaction then puts its
\* record in that block and no hash is recomputed, so the block's stored hash
\* is not its digest.  Nothing repairs that later, and with such a block in
\* the chain is_chain_valid is false, though no block was tampered with.
C23_RacedAppendBreaksChain ==
    /\ [](MiningDone => seal[1].new_block.transactions = pending_transactions)
    /\ [][(ret'.op = "add_transaction" /\ MiningDone /\ lists' # lists)
            => (/\ seal' = seal
                /\ chain' = chain
                /\ lists'[seal[1].new_block.transactions]
                     = Append(lists[seal[1].new_block.transactions], ret'.arg[1])
                /\ seal[1].new_block.hash # CalculateHash(seal[1].new_block, lists'))]_vars
    /\ [][StaleHash => StaleHash']_vars
    /\ []((\E i \in 2 .. Len(chain) : ~HashIsDigest(i)) => ~IsChainValid(chain, lists))
    /\ [][(ret'.op = "is_chain_valid" /\ ret' # ret)
            => ret'.val = Some(IsChainValid(chain, lists))]_vars
    /\ [](tampered = None)

\* The record came in after mining; the call returned; is_chain_valid said
\* False on the chain of two blocks nobody edited.
C23_Witness ==
    /\ seal = None
    /\ tampered = None
    /\ ret.op = "is_chain_valid"
    /\ ret.val = Some(FALSE)
    /\ Len(chain) = 2
    /\ Len(raced) = 1
    /\ lists[chain[2].transactions] = <<submitted[1], raced[1]>>
    /\ chain[2].hash = CalculateHash(chain[2], [lists EXCEPT ![chain[2].transactions] = <<submitted[1]>>])
    /\ difficulty = 1
\* The block with Python index n does not meet the proof-of-work target.
MissesTarget(n) == ~LeadingZeros(chain[n + 1].hash, difficulty)

\* C26: is_chain_valid compares stored hashes with digests and links only:
\* after the last block's transactions (or its index) were replaced and its
\* hash was set to the new digest, with no mining, the chain is valid and
\* is_chain_valid says so, whether or not that hash meets the target and
\* whether or not the index is the block's position.
C26_NoTargetCheck ==
    /\ IsChainValid(chain, lists)
    /\ (ret.op = "is_chain_valid" => ret.val = Some(TRUE))
    /\ \A i \in 1 .. Len(chain) : HashIsDigest(i)

\* The last block of a chain of two was given other transactions and the
\* digest of them as hash; at difficulty 1 that hash does not start with '0',
\* and is_chain_valid answered True, also after another block was sealed.
C26_Witness ==
    /\ tampered = Some([block |-> 1, field |-> "transactions"])
    /\ difficulty = 1
    /\ Len(chain) = 3
    /\ MissesTarget(1)
    /\ ~MissesTarget(2)
    /\ ret.op = "is_chain_valid"
    /\ ret.val = Some(TRUE)
\* The block of the running call with its nonce set to k and its digest as hash.
AtNonce(k) ==
    LET b == [seal[1].new_block EXCEPT !.nonce = k]
    IN  CalculateHash(b, lists)

\* C21: mine_block(d) on a new block starts at nonce 0; each turn of its loop
\* adds 1 to the nonce, stores the digest and changes no other field, and is
\* taken only while the stored hash lacks d leading '0'; the call is back
\* with the smallest nonce whose digest has d leading '0'.  With d no more
\* than the hex characters of a digest the call comes back; with d beyond
\* them no nonce qualifies and it never does.
C21_LinearSearch ==
    /\ [][(seal = None /\ seal' # None) => seal'[1].new_block.nonce = 0]_vars
    /\ [][(seal # None /\ seal' # None) =>
            LET b == seal[1].new_block
                a == seal'[1].new_block
                d == seal[1].difficulty
            IN  /\ seal[1].pc = "mine_block"
                /\ a.index = b.index
                /\ a.timestamp = b.timestamp
                /\ a.transactions = b.transactions
                /\ a.previous_hash = b.previous_hash
                /\ seal'[1].difficulty = d
                /\ \/ /\ a.nonce = b.nonce + 1
                      /\ a.hash = CalculateHash(a, lists)
                      /\ ~LeadingZeros(b.hash, d)
                      /\ seal'[1].pc = "mine_block"
                   \/ /\ a = b
                      /\ LeadingZeros(b.hash, d)
                      /\ seal'[1].pc = "append"]_vars
    /\ [](seal # None =>
             /\ seal[1].new_block.hash = AtNonce(seal[1].new_block.nonce)
             /\ seal[1].pc = "append" =>
                  /\ LeadingZeros(seal[1].new_block.hash, seal[1].difficulty)
                  /\ \A k \in 0 .. seal[1].new_block.nonce - 1 :
                        ~LeadingZeros(AtNonce(k), seal[1].difficulty)
             /\ seal[1].difficulty > HexDigits =>
                  /\ seal[1].pc = "mine_block"
                  /\ seal[1].new_block.nonce = MaxNonce =>
                        \A k \in 0 .. MaxNonce : ~LeadingZeros(AtNonce(k), seal[1].difficulty))
    /\ (seal # None /\ seal[1].difficulty <= HexDigits)
         ~> (seal # None /\ seal[1].pc = "append")

\* A call with d = 2 came back after more than sixteen turns.
C21_Witness ==
    /\ seal # None
    /\ seal[1].pc = "append"
    /\ seal[1].difficulty = 2
    /\ seal[1].new_block.nonce > 16
    /\ seal[1].new_block.hash.hex = <<0, 0>>
====
